---- MODULE Spec2Model ----
(***************************************************************************)
(* Flask OCR response service: the /process handlers of the two variants   *)
(* (flask_api/main.py, three engines, English; main.py, two engines,       *)
(* English + Bangla), the text normalizer and the address extractor.       *)
(*                                                                         *)
(* A Python str is a sequence of characters; a character is a one-element  *)
(* TLA+ string, except that a Bangla letter is written by its code point   *)
(* ("U+0995").  A Python value that may be None is Str(s) or NoneValue.     *)
(***************************************************************************)
EXTENDS Naturals, Sequences, FiniteSets, TLC

VARIABLES
    app,             \* which variant is deployed: "flask_api" or "bilingual"
    fs,              \* the uploads/ directory: path -> image content or NoFile
    pc,              \* per request: position in the handler
    req,             \* per request: the form's text field and the image part
    easy_raw,        \* per request: local easy_raw
    tesseract_raw,   \* per request: local tesseract_raw / tess_raw
    paddle_raw,      \* per request: local paddle_raw
    ocr_results,     \* per request: local ocr_results
    combined_text,   \* per request: local combined_text
    resp,            \* per request: the HTTP response
    invoked,         \* per request: the engines called so far
    raised,          \* per request: the engines whose call raised
    exc,             \* per request: the message of the exception caught, or ""
    cl_variant,      \* normalizer call: the variant whose normalizer is called
    cl_text,         \* normalizer call: the argument
    cl_once,         \* normalizer call: clean(text)
    cl_twice,        \* normalizer call: clean(clean(text))
    cl_pc,           \* normalizer call: position
    ad_text,         \* address extractor call: the argument
    ad_result,       \* address extractor call: the returned collection, as a set
    ad_pc            \* address extractor call: position

handler_vars == <<app, fs, pc, req, easy_raw, tesseract_raw, paddle_raw,
                  ocr_results, combined_text, resp, invoked, raised, exc>>
clean_vars == <<cl_variant, cl_text, cl_once, cl_twice, cl_pc>>
addr_vars == <<ad_text, ad_result, ad_pc>>
vars == <<handler_vars, clean_vars, addr_vars>>

----------------------------------------------------------------------------
(* Characters and Python's str operations                                  *)

UpperSeq == <<"A","B","C","D","E","F","G","H","I","J","K","L","M",
              "N","O","P","Q","R","S","T","U","V","W","X","Y","Z">>
LowerSeq == <<"a","b","c","d","e","f","g","h","i","j","k","l","m",
              "n","o","p","q","r","s","t","u","v","w","x","y","z">>
Letters == {UpperSeq[i] : i \in DOMAIN UpperSeq} \cup {LowerSeq[i] : i \in DOMAIN LowerSeq}
Digits == {"0","1","2","3","4","5","6","7","8","9"}

\* \s of a str pattern, and what str.strip() strips (the ASCII part)
Whitespace == {" ", "\t", "\n", "\r", "\f"}

\* representatives of the range \u0980-\u09FF
BanglaRange == {"U+0980", "U+0995", "U+09FF"}

\* the characters named in [^A-Za-z0-9\s\.\,\-\(\)\/@:+]
AllowBase == Letters \cup Digits \cup {".", ",", "-", "(", ")", "/", "@", ":", "+"}

\* the characters named in [^\u0980-\u09FFa-zA-Z0-9\s\.\,\-\(\)\/@:+<>]
AllowBilingual == AllowBase \cup BanglaRange \cup {"<", ">"}

\* str.lower() on one character
LowerChar(c) ==
    IF \E i \in DOMAIN UpperSeq : UpperSeq[i] = c
    THEN LowerSeq[CHOOSE i \in DOMAIN UpperSeq : UpperSeq[i] = c]
    ELSE c

\* str.lower()
Lower(s) == [i \in 1..Len(s) |-> LowerChar(s[i])]

RECURSIVE LStrip(_)
LStrip(s) ==
    IF s # <<>> /\ Head(s) \in Whitespace THEN LStrip(Tail(s)) ELSE s

RECURSIVE RStrip(_)
RStrip(s) ==
    IF s # <<>> /\ s[Len(s)] \in Whitespace
    THEN RStrip(SubSeq(s, 1, Len(s) - 1))
    ELSE s

\* str.strip()
Strip(s) == RStrip(LStrip(s))

\* str.endswith(suffix)
EndsWith(s, suffix) ==
    /\ Len(suffix) <= Len(s)
    /\ SubSeq(s, Len(s) - Len(suffix) + 1, Len(s)) = suffix

\* sub in s
Contains(s, sub) ==
    \E i \in 0..(Len(s) - Len(sub)) : SubSeq(s, i + 1, i + Len(sub)) = sub

\* re.sub(r"[^<allow>\s]", " ", s)
SubDisallowed(s, allow) ==
    [i \in 1..Len(s) |-> IF s[i] \in allow \cup Whitespace THEN s[i] ELSE " "]

\* re.sub(r"\s+", " ", s): every maximal run of whitespace becomes one space
RECURSIVE CollapseWs(_)
CollapseWs(s) ==
    IF s = <<>> THEN <<>>
    ELSE IF Head(s) \in Whitespace
         THEN <<" ">> \o CollapseWs(LStrip(Tail(s)))
         ELSE <<Head(s)>> \o CollapseWs(Tail(s))

\* Python values that may be None, and the outcome of a call
NoneValue == [none |-> TRUE, s |-> <<>>]
Str(s) == [none |-> FALSE, s |-> s]
Ret(s) == [raised |-> FALSE, s |-> s]
RaiseTypeError == [raised |-> TRUE, s |-> <<>>]

\* `not text`
Falsy(text) == text.none \/ text.s = <<>>

----------------------------------------------------------------------------
(* The text normalizer                                                     *)

\* a normalizer that collapses whitespace before it replaces characters
clean_text_regex_collapse_first(text) ==
    IF Falsy(text) THEN Ret(<<>>)
    ELSE Ret(Strip(SubDisallowed(CollapseWs(text.s), AllowBase)))

\* a normalizer that forgets the final strip
clean_text_regex_no_strip(text) ==
    IF Falsy(text) THEN Ret(<<>>)
    ELSE Ret(CollapseWs(SubDisallowed(text.s, AllowBase)))

\* flask_api/main.py
clean_text_regex(text) ==
    IF Falsy(text) THEN Ret(<<>>)
    ELSE Ret(Strip(CollapseWs(SubDisallowed(text.s, AllowBase))))

\* main.py: no guard; re.sub(pattern, " ", None) raises TypeError
clean_text_regex_bilingual(text) ==
    IF text.none THEN RaiseTypeError
    ELSE Ret(Strip(CollapseWs(SubDisallowed(text.s, AllowBilingual))))

----------------------------------------------------------------------------
(* The entity extractors of flask_api/main.py.  extract_emails and         *)
(* extract_phones read combined_text only, as these two do, and write       *)
(* nothing; the response below carries addresses and numbers.               *)

\* address_keywords, in the list's order
address_keywords ==
    <<<<"r","o","a","d">>,
      <<"r","d">>,
      <<"s","t","r","e","e","t">>,
      <<"s","t">>,
      <<"a","v","e","n","u","e">>,
      <<"a","v","e">>,
      <<"h","o","u","s","e">>,
      <<"f","l","o","o","r">>,
      <<"l","e","v","e","l">>,
      <<"b","l","o","c","k">>,
      <<"s","e","c","t","o","r">>,
      <<"d","h","a","k","a">>,
      <<"b","a","n","g","l","a","d","e","s","h">>,
      <<"c","i","t","y">>,
      <<"t","o","w","e","r">>,
      <<"b","u","i","l","d","i","n","g">>>>

\* the 10 of len(line) > 10
AddressMinLen == 10

\* re.split(r"[,.]", text)
RECURSIVE SplitCommaPeriod(_)
SplitCommaPeriod(s) ==
    IF \E i \in 1..Len(s) : s[i] \in {",", "."}
    THEN LET i == CHOOSE k \in 1..Len(s) :
                      /\ s[k] \in {",", "."}
                      /\ \A j \in 1..(k - 1) : s[j] \notin {",", "."}
         IN  <<SubSeq(s, 1, i - 1)>> \o SplitCommaPeriod(SubSeq(s, i + 1, Len(s)))
    ELSE <<s>>

\* a test that measures the line after trimming it
LineIsAddress_len_trimmed(line) ==
    \E k \in DOMAIN address_keywords :
        /\ Contains(Lower(line), Lower(address_keywords[k]))
        /\ Len(Strip(line)) > AddressMinLen

\* the test of one line against the keyword list: the inner for loop
LineIsAddress(line) ==
    \E k \in DOMAIN address_keywords :
        Contains(Lower(line), Lower(address_keywords[k])) /\ Len(line) > AddressMinLen

\* the outer for loop, building the list addresses
RECURSIVE CollectAddresses(_)
CollectAddresses(lines) ==
    IF lines = <<>> THEN <<>>
    ELSE (IF LineIsAddress(Head(lines)) THEN <<Strip(Head(lines))>> ELSE <<>>)
         \o CollectAddresses(Tail(lines))

\* list(set(addresses)), as a set
extract_addresses(text) ==
    LET addresses == CollectAddresses(SplitCommaPeriod(text))
    IN  {addresses[i] : i \in DOMAIN addresses}

\* re.findall(r"\d+", text): the maximal runs of digits, as a set
extract_numbers(text) ==
    {SubSeq(text, i, j) : <<i, j>> \in {p \in (1..Len(text)) \X (1..Len(text)) :
        /\ p[1] <= p[2]
        /\ \A k \in p[1]..p[2] : text[k] \in Digits
        /\ (p[1] = 1 \/ text[p[1] - 1] \notin Digits)
        /\ (p[2] = Len(text) \/ text[p[2] + 1] \notin Digits)}}

----------------------------------------------------------------------------
(* The requests, the upload directory and the OCR engines                  *)

Requests == {"r1", "r2"}

NoFile == "NoFile"
Images == {"card1", "card2"}

\* the text form field of a request
TextInputs == {<<>>, <<" ">>, <<" ", "b", "#", "2", " ">>}

\* the file names a client may give its upload
ValidNames == {<<"a", ".", "p", "n", "g">>, <<"B", ".", "J", "P", "G">>}
InvalidNames == {<<"c", ".", "g", "i", "f">>, <<"p", "n", "g">>}
Filenames == ValidNames \cup InvalidNames \cup {<<>>}

NoImage == [present |-> FALSE, filename |-> <<>>, content |-> NoFile]

\* each client uploads its own card
UploadOf(r) == IF r = "r1" THEN "card1" ELSE "card2"

\* the image part of a request of r: none, or a file under any of the names
ImageParts(r) ==
    {NoImage} \cup [present : {TRUE}, filename : Filenames, content : {UploadOf(r)}]

\* bool(FileStorage) is bool(filename)
Truthy(image_file) == image_file.present /\ image_file.filename # <<>>

\* the tuple given to endswith
AllowedExtensions ==
    {<<".", "p", "n", "g">>, <<".", "j", "p", "g">>,
     <<".", "j", "p", "e", "g">>, <<".", "b", "m", "p">>}

\* image_file.filename.lower().endswith((...))
AllowedFile(filename) ==
    \E ext \in AllowedExtensions : EndsWith(Lower(filename), ext)

\* os.path.join('uploads', filename): one path per file name
PathOf(filename) == filename

\* what an engine answers for an image it can read, already joined with "\n"
EngineText(engine, img) ==
    CASE engine = "easyocr" /\ img = "card1" -> <<"A", "\n", "1">>
      [] engine = "easyocr" /\ img = "card2" -> <<"B", "#", "U+0995">>
      [] engine = "tesseract" /\ img = "card1" -> <<"a", " ", " ", "1", "\n", "\f">>
      [] engine = "tesseract" /\ img = "card2" -> <<"U+0995", "\n", "\f">>
      [] engine = "paddleocr" /\ img = "card1" -> <<"A", "1">>
      [] engine = "paddleocr" /\ img = "card2" -> <<"b", "<", "2">>

\* the outcomes of one engine call on the file at path: a raw text, or
\* "raise" (the file is gone, or the engine fails by itself)
Raise == "raise"
EngineOutcomes(engine, path) ==
    IF fs[path] = NoFile THEN {Raise}
    ELSE {Raise, EngineText(engine, fs[path])}

\* the normalizers on a str
Clean(s) == clean_text_regex(Str(s)).s
CleanBilingual(s) == clean_text_regex_bilingual(Str(s)).s

NoResponse ==
    [status |-> 0, error |-> "", ocr_results |-> <<>>,
     combined_cleaned_text |-> <<>>,
     extracted |-> [addresses |-> {}, numbers |-> {}]]

\* jsonify({'error': msg}), status
ErrorResponse(status, msg) == [NoResponse EXCEPT !.status = status, !.error = msg]

----------------------------------------------------------------------------
(* flask_api/main.py: process_visiting_card                                *)

Paths == {PathOf(f) : f \in Filenames \ {<<>>}}

Finish(r, response) ==
    /\ resp' = [resp EXCEPT ![r] = response]
    /\ pc' = [pc EXCEPT ![r] = "done"]

\* an upload written to disk before its extension is checked
SavesUpload_before_check(image_file) == Truthy(image_file)

\* the save is reached only past both 400 returns
SavesUpload(image_file) ==
    Truthy(image_file) /\ AllowedFile(image_file.filename)

\* an except clause that falls through to the text branch
ExceptOcrFailed_falls_through(r, msg) ==
    /\ exc' = [exc EXCEPT ![r] = msg]
    /\ resp' = resp
    /\ pc' = [pc EXCEPT ![r] = "text"]

\* except Exception as e: return jsonify({'error': f'OCR failed: {str(e)}'}), 500
ExceptOcrFailed(r, msg) ==
    /\ exc' = [exc EXCEPT ![r] = msg]
    /\ Finish(r, ErrorResponse(500, "OCR failed: " \o msg))

\* the f-string with the engines in another order
CombineEngines_paddle_first(easy_clean, tesseract_clean, paddle_clean) ==
    paddle_clean \o <<" ">> \o easy_clean \o <<" ">> \o tesseract_clean

\* f"{easy_clean} {tesseract_clean} {paddle_clean}"
CombineEngines(easy_clean, tesseract_clean, paddle_clean) ==
    easy_clean \o <<" ">> \o tesseract_clean \o <<" ">> \o paddle_clean

\* lines 97-112: read the form, the two 400 returns, save the upload
Receive(r) ==
    /\ app = "flask_api"
    /\ pc[r] = "idle"
    /\ \E text \in TextInputs, image_file \in ImageParts(r) :
         LET text_input == Strip(text)
         IN  /\ req' = [req EXCEPT ![r] = [text |-> text, image |-> image_file]]
             /\ fs' = IF SavesUpload(image_file)
                      THEN [fs EXCEPT ![PathOf(image_file.filename)] = image_file.content]
                      ELSE fs
             /\ IF text_input = <<>> /\ ~Truthy(image_file)
                THEN Finish(r, ErrorResponse(400, "No input provided. Submit an image or text."))
                ELSE IF Truthy(image_file) /\ ~AllowedFile(image_file.filename)
                THEN Finish(r, ErrorResponse(400, "Invalid file type"))
                ELSE /\ pc' = [pc EXCEPT ![r] = IF Truthy(image_file) THEN "easyocr" ELSE "text"]
                     /\ resp' = resp
    /\ UNCHANGED <<app, easy_raw, tesseract_raw, paddle_raw, ocr_results,
                   combined_text, invoked, raised, exc,
                   clean_vars, addr_vars>>

\* line 115: easy_reader.readtext(image_path), not wrapped
Easy(r) ==
    /\ app = "flask_api"
    /\ pc[r] = "easyocr"
    /\ invoked' = [invoked EXCEPT ![r] = @ \cup {"easyocr"}]
    /\ \E out \in EngineOutcomes("easyocr", PathOf(req[r].image.filename)) :
         IF out = Raise
         THEN /\ raised' = [raised EXCEPT ![r] = @ \cup {"easyocr"}]
              /\ ExceptOcrFailed(r, "easyocr error")
              /\ UNCHANGED easy_raw
         ELSE /\ easy_raw' = [easy_raw EXCEPT ![r] = out]
              /\ pc' = [pc EXCEPT ![r] = "tesseract"]
              /\ UNCHANGED <<raised, exc, resp>>
    /\ UNCHANGED <<app, fs, req, tesseract_raw, paddle_raw, ocr_results, combined_text,
                   clean_vars, addr_vars>>

\* lines 30-35 called from line 116: a raise inside becomes ""
ocr_with_tesseract(out) == IF out = Raise THEN <<>> ELSE out

\* lines 37-43 called from line 117: a raise inside becomes ""
ocr_with_paddle(out) == IF out = Raise THEN <<>> ELSE out

Tesseract(r) ==
    /\ app = "flask_api"
    /\ pc[r] = "tesseract"
    /\ invoked' = [invoked EXCEPT ![r] = @ \cup {"tesseract"}]
    /\ \E out \in EngineOutcomes("tesseract", PathOf(req[r].image.filename)) :
         /\ raised' = [raised EXCEPT ![r] = IF out = Raise THEN @ \cup {"tesseract"} ELSE @]
         /\ tesseract_raw' = [tesseract_raw EXCEPT ![r] = ocr_with_tesseract(out)]
    /\ pc' = [pc EXCEPT ![r] = "paddleocr"]
    /\ UNCHANGED <<app, fs, req, easy_raw, paddle_raw, ocr_results, combined_text, resp, exc,
                   clean_vars, addr_vars>>

Paddle(r) ==
    /\ app = "flask_api"
    /\ pc[r] = "paddleocr"
    /\ invoked' = [invoked EXCEPT ![r] = @ \cup {"paddleocr"}]
    /\ \E out \in EngineOutcomes("paddleocr", PathOf(req[r].image.filename)) :
         /\ raised' = [raised EXCEPT ![r] = IF out = Raise THEN @ \cup {"paddleocr"} ELSE @]
         /\ paddle_raw' = [paddle_raw EXCEPT ![r] = ocr_with_paddle(out)]
    /\ pc' = [pc EXCEPT ![r] = "clean"]
    /\ UNCHANGED <<app, fs, req, easy_raw, tesseract_raw, ocr_results, combined_text, resp, exc,
                   clean_vars, addr_vars>>

\* lines 119-133: clean the three raw texts, build ocr_results and
\* combined_text, os.remove(image_path); FileNotFoundError goes to the except
CleanAndRemove(r) ==
    /\ app = "flask_api"
    /\ pc[r] = "clean"
    /\ LET path == PathOf(req[r].image.filename)
           easy_clean == Clean(easy_raw[r])
           tesseract_clean == Clean(tesseract_raw[r])
           paddle_clean == Clean(paddle_raw[r])
       IN  /\ ocr_results' = [ocr_results EXCEPT ![r] =
                 [easyocr |-> [raw |-> easy_raw[r], cleaned |-> easy_clean],
                  tesseract |-> [raw |-> tesseract_raw[r], cleaned |-> tesseract_clean],
                  paddleocr |-> [raw |-> paddle_raw[r], cleaned |-> paddle_clean]]]
           /\ combined_text' = [combined_text EXCEPT ![r] =
                 CombineEngines(easy_clean, tesseract_clean, paddle_clean)]
           /\ IF fs[path] = NoFile
              THEN /\ ExceptOcrFailed(r, "[Errno 2] No such file or directory")
                   /\ UNCHANGED fs
              ELSE /\ fs' = [fs EXCEPT ![path] = NoFile]
                   /\ pc' = [pc EXCEPT ![r] = "text"]
                   /\ UNCHANGED <<resp, exc>>
    /\ UNCHANGED <<app, req, easy_raw, tesseract_raw, paddle_raw, invoked, raised,
                   clean_vars, addr_vars>>

\* lines 137-155: append the cleaned text field, clean the whole, extract
Respond(r) ==
    /\ app = "flask_api"
    /\ pc[r] = "text"
    /\ LET text_input == Strip(req[r].text)
           appended == IF text_input # <<>>
                       THEN Strip(combined_text[r] \o <<" ">> \o Clean(text_input))
                       ELSE combined_text[r]
           combined == Clean(appended)
       IN  /\ combined_text' = [combined_text EXCEPT ![r] = combined]
           /\ Finish(r, [status |-> 200, error |-> "",
                         ocr_results |-> ocr_results[r],
                         combined_cleaned_text |-> combined,
                         extracted |-> [addresses |-> extract_addresses(combined),
                                        numbers |-> extract_numbers(combined)]])
    /\ UNCHANGED <<app, fs, req, easy_raw, tesseract_raw, paddle_raw, ocr_results,
                   invoked, raised, exc,
                   clean_vars, addr_vars>>

----------------------------------------------------------------------------
(* main.py: process_document.  Nothing is caught: a raise leaves the       *)
(* handler and Flask answers 500.                                          *)

Unhandled(r) == Finish(r, ErrorResponse(500, "Internal Server Error"))

\* lines 65-71: the 400 return, save the upload
DocReceive(r) ==
    /\ app = "bilingual"
    /\ pc[r] = "idle"
    /\ \E image_file \in ImageParts(r) :
         /\ req' = [req EXCEPT ![r] = [text |-> <<>>, image |-> image_file]]
         /\ IF ~Truthy(image_file)
            THEN /\ Finish(r, ErrorResponse(400, "Image is required"))
                 /\ UNCHANGED fs
            ELSE /\ fs' = [fs EXCEPT ![PathOf(image_file.filename)] = image_file.content]
                 /\ pc' = [pc EXCEPT ![r] = "easyocr"]
                 /\ resp' = resp
    /\ UNCHANGED <<app, easy_raw, tesseract_raw, paddle_raw, ocr_results,
                   combined_text, invoked, raised, exc,
                   clean_vars, addr_vars>>

\* line 74
DocEasy(r) ==
    /\ app = "bilingual"
    /\ pc[r] = "easyocr"
    /\ invoked' = [invoked EXCEPT ![r] = @ \cup {"easyocr"}]
    /\ \E out \in EngineOutcomes("easyocr", PathOf(req[r].image.filename)) :
         IF out = Raise
         THEN /\ raised' = [raised EXCEPT ![r] = @ \cup {"easyocr"}]
              /\ Unhandled(r)
              /\ UNCHANGED easy_raw
         ELSE /\ easy_raw' = [easy_raw EXCEPT ![r] = out]
              /\ pc' = [pc EXCEPT ![r] = "tesseract"]
              /\ UNCHANGED <<raised, resp>>
    /\ UNCHANGED <<app, fs, req, tesseract_raw, paddle_raw, ocr_results,
                   combined_text, exc,
                   clean_vars, addr_vars>>

\* line 75, lines 20-24: ocr_with_tesseract has no try
DocTesseract(r) ==
    /\ app = "bilingual"
    /\ pc[r] = "tesseract"
    /\ invoked' = [invoked EXCEPT ![r] = @ \cup {"tesseract"}]
    /\ \E out \in EngineOutcomes("tesseract", PathOf(req[r].image.filename)) :
         IF out = Raise
         THEN /\ raised' = [raised EXCEPT ![r] = @ \cup {"tesseract"}]
              /\ Unhandled(r)
              /\ UNCHANGED tesseract_raw
         ELSE /\ tesseract_raw' = [tesseract_raw EXCEPT ![r] = out]
              /\ pc' = [pc EXCEPT ![r] = "clean"]
              /\ UNCHANGED <<raised, resp>>
    /\ UNCHANGED <<app, fs, req, easy_raw, paddle_raw, ocr_results, combined_text, exc,
                   clean_vars, addr_vars>>

\* lines 77-91: clean, combine, os.remove(image_path), respond
DocFinish(r) ==
    /\ app = "bilingual"
    /\ pc[r] = "clean"
    /\ LET path == PathOf(req[r].image.filename)
           easy_clean == CleanBilingual(easy_raw[r])
           tess_clean == CleanBilingual(tesseract_raw[r])
           combined == CleanBilingual(easy_clean \o <<" ">> \o tess_clean)
           results == [easyocr |-> [raw |-> easy_raw[r], cleaned |-> easy_clean],
                       tesseract |-> [raw |-> tesseract_raw[r], cleaned |-> tess_clean]]
       IN  /\ combined_text' = [combined_text EXCEPT ![r] = combined]
           /\ IF fs[path] = NoFile
              THEN /\ Unhandled(r)
                   /\ UNCHANGED <<fs, ocr_results>>
              ELSE /\ fs' = [fs EXCEPT ![path] = NoFile]
                   /\ ocr_results' = [ocr_results EXCEPT ![r] = results]
                   /\ Finish(r, [NoResponse EXCEPT !.status = 200,
                                                   !.ocr_results = results,
                                                   !.combined_cleaned_text = combined])
    /\ UNCHANGED <<app, req, easy_raw, tesseract_raw, paddle_raw, invoked, raised, exc,
                   clean_vars, addr_vars>>

----------------------------------------------------------------------------
(* The server                                                              *)

NoRequest == [text |-> <<>>, image |-> NoImage]

\* the response is sent and the worker takes the next request
NextRequest(r) ==
    /\ pc[r] = "done"
    /\ pc' = [pc EXCEPT ![r] = "idle"]
    /\ req' = [req EXCEPT ![r] = NoRequest]
    /\ easy_raw' = [easy_raw EXCEPT ![r] = <<>>]
    /\ tesseract_raw' = [tesseract_raw EXCEPT ![r] = <<>>]
    /\ paddle_raw' = [paddle_raw EXCEPT ![r] = <<>>]
    /\ ocr_results' = [ocr_results EXCEPT ![r] = <<>>]
    /\ combined_text' = [combined_text EXCEPT ![r] = <<>>]
    /\ resp' = [resp EXCEPT ![r] = NoResponse]
    /\ invoked' = [invoked EXCEPT ![r] = {}]
    /\ raised' = [raised EXCEPT ![r] = {}]
    /\ exc' = [exc EXCEPT ![r] = ""]
    /\ UNCHANGED <<app, fs,
                   clean_vars, addr_vars>>

HandlerIdle ==
    /\ fs = [p \in Paths |-> NoFile]
    /\ pc = [r \in Requests |-> "idle"]
    /\ req = [r \in Requests |-> NoRequest]
    /\ easy_raw = [r \in Requests |-> <<>>]
    /\ tesseract_raw = [r \in Requests |-> <<>>]
    /\ paddle_raw = [r \in Requests |-> <<>>]
    /\ ocr_results = [r \in Requests |-> <<>>]
    /\ combined_text = [r \in Requests |-> <<>>]
    /\ resp = [r \in Requests |-> NoResponse]
    /\ invoked = [r \in Requests |-> {}]
    /\ raised = [r \in Requests |-> {}]
    /\ exc = [r \in Requests |-> ""]

CleanIdle ==
    /\ cl_variant = "flask_api"
    /\ cl_text = NoneValue
    /\ cl_once = Ret(<<>>)
    /\ cl_twice = Ret(<<>>)
    /\ cl_pc = "off"

AddrIdle ==
    /\ ad_text = <<>>
    /\ ad_result = {}
    /\ ad_pc = "off"

Init ==
    /\ app \in {"flask_api", "bilingual"}
    /\ HandlerIdle
    /\ CleanIdle
    /\ AddrIdle

Next ==
    \E r \in Requests :
        \/ Receive(r)
        \/ Easy(r)
        \/ Tesseract(r)
        \/ Paddle(r)
        \/ CleanAndRemove(r)
        \/ Respond(r)
        \/ DocReceive(r)
        \/ DocEasy(r)
        \/ DocTesseract(r)
        \/ DocFinish(r)
        \/ NextRequest(r)

Spec == Init /\ [][Next]_vars

----------------------------------------------------------------------------
(* The normalizer called on its own                                        *)

MaxCleanLen == 5

\* one character of each class: allowed, space, other whitespace, allowed
\* by neither variant, allowed by the bilingual variant only
CleanAlphabet == {"a", " ", "\t", "\n", "#", "<", "U+0995"}

CleanInputs ==
    {NoneValue} \cup
    {Str(s) : s \in UNION {[1..n -> CleanAlphabet] : n \in 0..MaxCleanLen}}

\* the clean_text_regex of the variant
NormalizerOf(variant, text) ==
    IF variant = "flask_api" THEN clean_text_regex(text)
    ELSE clean_text_regex_bilingual(text)

AllowOf(variant) == IF variant = "flask_api" THEN AllowBase ELSE AllowBilingual

CleanOnce ==
    /\ cl_pc = "call"
    /\ cl_once' = NormalizerOf(cl_variant, cl_text)
    /\ cl_pc' = "once"
    /\ UNCHANGED <<cl_variant, cl_text, cl_twice, handler_vars, addr_vars>>

CleanTwice ==
    /\ cl_pc = "once"
    /\ ~cl_once.raised
    /\ cl_twice' = NormalizerOf(cl_variant, Str(cl_once.s))
    /\ cl_pc' = "twice"
    /\ UNCHANGED <<cl_variant, cl_text, cl_once, handler_vars, addr_vars>>

InitClean ==
    /\ app = "flask_api"
    /\ HandlerIdle
    /\ AddrIdle
    /\ cl_variant \in {"flask_api", "bilingual"}
    /\ cl_text \in CleanInputs
    /\ cl_once = Ret(<<>>)
    /\ cl_twice = Ret(<<>>)
    /\ cl_pc = "call"

NextClean == CleanOnce \/ CleanTwice

SpecClean == InitClean /\ [][NextClean]_vars

----------------------------------------------------------------------------
(* The address extractor called on its own                                 *)

MaxFrags == 3

GulshanFragment == <<"1","2","3"," ","G","u","l","s","h","a","n"," ","R","o","a","d">>
DhakaFragment == <<" ","D","h","a","k","a">>
BangladeshFragment == <<" ","B","a","n","g","l","a","d","e","s","h">>
ShortFragment == <<" ","s","h","o","r","t">>

\* "123 Gulshan Road, Dhaka, Bangladesh, short"
ExampleText ==
    GulshanFragment \o <<",">> \o DhakaFragment \o <<",">>
        \o BangladeshFragment \o <<",">> \o ShortFragment

\* fragments with and without a keyword, short and long, with and without
\* surrounding spaces, in upper and lower case
FragmentPool ==
    {GulshanFragment, DhakaFragment, BangladeshFragment, ShortFragment,
     <<" ","0","1","7","1","2","3","4","5","6","7","8">>,
     <<" ","H","O","U","S","E"," ","1","2"," ","B"," ">>}

RECURSIVE TextsOf(_)
TextsOf(n) ==
    IF n = 1 THEN FragmentPool
    ELSE {t \o <<sep>> \o f : t \in TextsOf(n - 1), sep \in {",", "."}, f \in FragmentPool}

AddrInputs == {ExampleText} \cup UNION {TextsOf(n) : n \in 1..MaxFrags}

ExtractAddresses ==
    /\ ad_pc = "call"
    /\ ad_result' = extract_addresses(ad_text)
    /\ ad_pc' = "done"
    /\ UNCHANGED <<ad_text, handler_vars, clean_vars>>

InitAddr ==
    /\ app = "flask_api"
    /\ HandlerIdle
    /\ CleanIdle
    /\ ad_text \in AddrInputs
    /\ ad_result = {}
    /\ ad_pc = "call"

NextAddr == ExtractAddresses

SpecAddr == InitAddr /\ [][NextAddr]_vars

----------------------------------------------------------------------------
(* Properties                                                              *)

\* the request wrote its upload to uploads/
Persisted(r) ==
    /\ Truthy(req[r].image)
    /\ app = "flask_api" => AllowedFile(req[r].image.filename)

OwnPath(r) == PathOf(req[r].image.filename)

\* C1: a request that saved its upload never ends with the file still in
\* uploads/, whichever way it ends (both variants).
C1_TransientFileDeleted ==
    \A r \in Requests :
        (pc[r] = "done" /\ Persisted(r)) => fs[OwnPath(r)] = NoFile

\* C2: in the three-engine variant, when exactly one engine's call raised,
\* the request still answers 200, that engine's raw text is "" and the
\* combined text is built from the engines' cleaned texts with "" for it.
C2_EngineIsolation ==
    \A r \in Requests : \A e \in {"easyocr", "tesseract", "paddleocr"} :
        (app = "flask_api" /\ pc[r] = "done" /\ Persisted(r) /\ raised[r] = {e})
        => /\ resp[r].status = 200
           /\ resp[r].ocr_results[e].raw = <<>>
           /\ resp[r].ocr_results[e].cleaned = <<>>

\* C3: a step that answers 400 is the request's first step: it leaves
\* uploads/ as it was, no engine has been called for the request, and the
\* body carries an error message.
C3_RejectedBeforeOcr ==
    [][\A r \in Requests :
          (pc[r] # "done" /\ pc'[r] = "done" /\ resp'[r].status = 400)
          => /\ pc[r] = "idle"
             /\ fs' = fs
             /\ invoked'[r] = {}
             /\ resp'[r].error # ""
             /\ DOMAIN resp'[r].ocr_results = {}]_vars

\* reached: an upload with a name outside the allow-list was answered 400
C3_Witness ==
    \E r \in Requests :
        /\ pc[r] = "done"
        /\ resp[r].status = 400
        /\ Truthy(req[r].image)
        /\ req[r].image.filename \in InvalidNames

\* C4: cleaning a cleaned text changes nothing, in both variants.
C4_CleanIdempotent ==
    cl_pc = "twice" => (~cl_twice.raised /\ cl_twice.s = cl_once.s)

\* reached: a text the normalizer changed, cleaned a second time
C4_Witness ==
    /\ cl_pc = "twice"
    /\ cl_once.s # <<>>
    /\ cl_once.s # cl_text.s
    /\ \E i \in DOMAIN cl_text.s : cl_text.s[i] \notin AllowOf(cl_variant) \cup {" "}

\* C5: the normalizer of either variant never raises, and answers "" for
\* "" and for None.
C5_CleanNeverRaises ==
    cl_pc # "call" =>
        /\ ~cl_once.raised
        /\ Falsy(cl_text) => cl_once.s = <<>>

\* C6: a cleaned text holds only characters of the variant's allow-list and
\* spaces, no two spaces in a row, no other whitespace, and no space at
\* either end.
C6_CleanOutputShape ==
    (cl_pc # "call" /\ ~cl_once.raised) =>
        LET out == cl_once.s
        IN  /\ \A i \in DOMAIN out :
                   /\ out[i] \in AllowOf(cl_variant) \cup {" "}
                   /\ out[i] \notin Whitespace \ {" "}
            /\ \A i \in 1..(Len(out) - 1) : ~(out[i] = " " /\ out[i + 1] = " ")
            /\ out # <<>> => (out[1] # " " /\ out[Len(out)] # " ")

\* reached: an input with a tab or newline and a rejected character,
\* cleaned to a text with a space inside
C6_Witness ==
    /\ cl_pc = "once"
    /\ ~cl_text.none
    /\ \E i \in DOMAIN cl_text.s : cl_text.s[i] \in {"\t", "\n"}
    /\ \E i \in DOMAIN cl_text.s : cl_text.s[i] = "#"
    /\ \E i \in DOMAIN cl_once.s : cl_once.s[i] = " "

\* the text field as the aggregation sees it
SuppliedClean(r) == IF req[r].text # <<>> THEN <<" ">> \o Clean(req[r].text) ELSE <<>>

\* C7: a 200 answer of the three-engine variant carries clean() of the
\* cleaned texts of easyocr, tesseract, paddleocr, joined by spaces in that
\* order and followed by the cleaned text field when there is one; with no
\* image, ocr_results is empty and the combined text is clean(text field).
C7_CombinedText ==
    \A r \in Requests :
        (app = "flask_api" /\ pc[r] = "done" /\ resp[r].status = 200) =>
            LET res == resp[r].ocr_results
            IN  IF Truthy(req[r].image)
                THEN /\ DOMAIN res = {"easyocr", "tesseract", "paddleocr"}
                     /\ resp[r].combined_cleaned_text =
                            Clean(res.easyocr.cleaned \o <<" ">> \o res.tesseract.cleaned
                                  \o <<" ">> \o res.paddleocr.cleaned \o SuppliedClean(r))
                ELSE /\ DOMAIN res = {}
                     /\ resp[r].combined_cleaned_text = Clean(req[r].text)

\* reached: a 200 answer to an image and a text field, the three engines'
\* cleaned texts non-empty and different
C7_Witness ==
    \E r \in Requests :
        /\ app = "flask_api"
        /\ pc[r] = "done"
        /\ resp[r].status = 200
        /\ Truthy(req[r].image)
        /\ Strip(req[r].text) # <<>>
        /\ resp[r].ocr_results.easyocr.cleaned # <<>>
        /\ resp[r].ocr_results.paddleocr.cleaned # <<>>
        /\ resp[r].ocr_results.easyocr.cleaned # resp[r].ocr_results.paddleocr.cleaned

\* the fragments of text that qualify, measured as split, then trimmed
QualifyingFragments(text) ==
    LET lines == SplitCommaPeriod(text)
        keys == {address_keywords[k] : k \in DOMAIN address_keywords}
    IN  {Strip(lines[i]) : i \in {j \in DOMAIN lines :
              /\ Len(lines[j]) > AddressMinLen
              /\ \E key \in keys : Contains(Lower(lines[j]), key)}}

\* C8 as stated: the extractor returns the qualifying fragments, and for
\* "123 Gulshan Road, Dhaka, Bangladesh, short" these include the Gulshan
\* Road fragment and the Dhaka fragment but not "short".
C8_AddressesAsStated ==
    ad_pc = "done" =>
        /\ ad_result = QualifyingFragments(ad_text)
        /\ ad_text = ExampleText =>
               /\ Strip(GulshanFragment) \in ad_result
               /\ Strip(DhakaFragment) \in ad_result
               /\ Strip(ShortFragment) \notin ad_result

\* C8 amended: the extractor returns the trimmed forms of the fragments
\* (split on commas and periods) that are longer than 10 characters before
\* trimming and contain a keyword; for the example these are the Gulshan
\* Road fragment and the Bangladesh fragment, and neither " Dhaka" (6
\* characters) nor " short".
C8_AddressesAmended ==
    ad_pc = "done" =>
        /\ ad_result = QualifyingFragments(ad_text)
        /\ ad_text = ExampleText =>
               ad_result = {Strip(GulshanFragment), Strip(BangladeshFragment)}

\* reached: the extractor has answered for the example
C8_Witness ==
    /\ ad_pc = "done"
    /\ ad_text = ExampleText
    /\ ad_result # {}

\* the request carries an image that was saved and a non-blank text field,
\* and the handler's except clause caught an exception
BothSuppliedOcrFailed(r) ==
    /\ app = "flask_api"
    /\ pc[r] = "done"
    /\ Persisted(r)
    /\ Strip(req[r].text) # <<>>
    /\ exc[r] # ""

\* C9 as stated: with image and text supplied, an OCR failure that is caught
\* aborts only the image branch: the answer is 200 and is built from the
\* cleaned text field.
C9_TextBranchSurvives ==
    \A r \in Requests :
        BothSuppliedOcrFailed(r) =>
            /\ resp[r].status = 200
            /\ resp[r].combined_cleaned_text = Clean(req[r].text)

\* C9 amended: with image and text supplied, an OCR failure that is caught
\* fails the whole request: 500 with "OCR failed: <message>", and nothing of
\* the text field in the answer.
C9_OcrFailureFailsRequest ==
    \A r \in Requests :
        BothSuppliedOcrFailed(r) =>
            /\ resp[r].status = 500
            /\ resp[r].error = "OCR failed: " \o exc[r]
            /\ resp[r].combined_cleaned_text = <<>>
            /\ resp[r].extracted = NoResponse.extracted

\* reached: such a request, failed by easyocr
C9_Witness ==
    \E r \in Requests : BothSuppliedOcrFailed(r) /\ raised[r] = {"easyocr"}

\* C10: whatever the interleaving, a 200 answer carries only texts read
\* from the image its own request uploaded, and no request fails because
\* its file was removed by another.
C10_NoSharedUploads ==
    \A r \in Requests :
        (pc[r] = "done" /\ Persisted(r)) =>
            /\ exc[r] # "[Errno 2] No such file or directory"
            /\ resp[r].status = 200 =>
                   \A e \in DOMAIN resp[r].ocr_results :
                       resp[r].ocr_results[e].raw
                           \in {<<>>, EngineText(e, req[r].image.content)}

====
